---- MODULE Spec2Model ----
(***************************************************************************)
(* State-machine model of static/app.js: the result renderer               *)
(* (clearResults / displayResults), the three query-form submit handlers,  *)
(* the tab click handler and the loading spinner.                          *)
(*                                                                         *)
(* Modelling conventions                                                   *)
(*  - A JavaScript number is NaN or an exact decimal with FracDigits       *)
(*    fractional digits, held as the integer v = value * 10^FracDigits.    *)
(*    Binary floating-point rounding error is outside the model.           *)
(*  - A JavaScript string is a TLA+ string.                                *)
(*  - A JSON value is a record [t, n, s]: t is its type tag, n its number  *)
(*    (when t = "num"), s its text (when t = "str").                       *)
(*  - The Chart.js constructor and destroy() are taken to succeed.         *)
(*  - toLocaleString is modelled for the en-US locale.                     *)
(***************************************************************************)
EXTENDS Integers, Sequences, FiniteSets, TLC

\* ------------------------------------------------------------------------
\* Bounds of the model
\* ------------------------------------------------------------------------
FracDigits == 5
MaxLen == 2
MaxInFlight == 2
MaxDates == 2

\* ------------------------------------------------------------------------
\* JavaScript numbers and strings
\* ------------------------------------------------------------------------
RECURSIVE Pow10(_)
Pow10(k) == IF k = 0 THEN 1 ELSE 10 * Pow10(k - 1)

Scale == Pow10(FracDigits)

NaN == [nan |-> TRUE, v |-> 0]
Num(v) == [nan |-> FALSE, v |-> v]

Abs(i) == IF i < 0 THEN -i ELSE i

CharAt(s, i) == SubSeq(s, i, i)

DigitChars == "0123456789"

DigitChar(d) == CharAt(DigitChars, d + 1)

IsDigit(c) == \E d \in 0..9 : DigitChar(d) = c

DigitVal(c) == CHOOSE d \in 0..9 : DigitChar(d) = c

RECURSIVE NatToString(_)
NatToString(n) ==
    IF n < 10 THEN DigitChar(n)
    ELSE NatToString(n \div 10) \o DigitChar(n % 10)

\* k decimal digits of n, zero-padded on the left
RECURSIVE PadDigits(_, _)
PadDigits(n, k) ==
    IF k = 0 THEN ""
    ELSE PadDigits(n \div 10, k - 1) \o DigitChar(n % 10)

\* drop the trailing zeros of a digit string
RECURSIVE TrimZeros(_)
TrimZeros(s) ==
    IF Len(s) > 0 /\ CharAt(s, Len(s)) = "0"
    THEN TrimZeros(SubSeq(s, 1, Len(s) - 1))
    ELSE s

\* the sign a negative number prints with
SignOf(x) == IF x.v < 0 THEN "-" ELSE ""

\* n / unit rounded to the nearest integer, the larger one on a tie
RoundDiv(n, unit) == (n + unit \div 2) \div unit

\* the integer n * 10^-d written with exactly d fraction digits
FixedDigits(n, d) ==
    NatToString(n \div Pow10(d)) \o "." \o PadDigits(n % Pow10(d), d)

\* Number.prototype.toFixed(d): NaN prints as "NaN"; otherwise the nearest
\* multiple of 10^-d, the larger one on a tie, with exactly d fraction digits.
ToFixed(x, d) ==
    IF x.nan THEN "NaN"
    ELSE SignOf(x) \o FixedDigits(RoundDiv(Abs(x.v), Pow10(FracDigits - d)), d)

\* a fraction digit string as it is printed: nothing when it is empty
FracSuffix(frac) == IF frac = "" THEN "" ELSE "." \o frac

\* Number::toString for the magnitudes of the model (no exponent form)
NumToString(x) ==
    IF x.nan THEN "NaN"
    ELSE SignOf(x) \o NatToString(Abs(x.v) \div Scale) \o
         FracSuffix(TrimZeros(PadDigits(Abs(x.v) % Scale, FracDigits)))

\* thousands grouping of a natural number, en-US
RECURSIVE GroupThousands(_)
GroupThousands(n) ==
    IF n < 1000 THEN NatToString(n)
    ELSE GroupThousands(n \div 1000) \o "," \o PadDigits(n % 1000, 3)

\* the integer n * 10^-3 written with grouping and without trailing zeros
GroupedDigits(n) ==
    GroupThousands(n \div 1000) \o FracSuffix(TrimZeros(PadDigits(n % 1000, 3)))

\* Number.prototype.toLocaleString(): grouped integer part, at most three
\* fraction digits (rounded), trailing zeros dropped.
NumToLocaleString(x) ==
    IF x.nan THEN "NaN"
    ELSE SignOf(x) \o GroupedDigits(RoundDiv(Abs(x.v), Pow10(FracDigits - 3)))

\* number of leading decimal digits of s from position i on
RECURSIVE DigitRun(_, _)
DigitRun(s, i) ==
    IF i <= Len(s) /\ IsDigit(CharAt(s, i)) THEN 1 + DigitRun(s, i + 1) ELSE 0

RECURSIVE DigitsToNat(_)
DigitsToNat(s) ==
    IF s = "" THEN 0
    ELSE 10 * DigitsToNat(SubSeq(s, 1, Len(s) - 1)) + DigitVal(CharAt(s, Len(s)))

\* index of the first non-blank character of s from position i on
RECURSIVE SkipBlanks(_, _)
SkipBlanks(s, i) ==
    IF i <= Len(s) /\ CharAt(s, i) = " " THEN SkipBlanks(s, i + 1) ELSE i

\* is the character of s at position i one of chars
CharIn(s, i, chars) == i <= Len(s) /\ CharAt(s, i) \in chars

\* number of fraction digits that follow the integer digits ending before i
FracRun(s, i) == IF CharIn(s, i, {"."}) THEN DigitRun(s, i + 1) ELSE 0

\* value, in units of 10^-FracDigits, of a fraction digit string
FracValue(digits) == DigitsToNat(digits) * Pow10(FracDigits - Len(digits))

Min(a, b) == IF a < b THEN a ELSE b

\* the number written from position i on as nInt integer digits, a point
\* and nFrac fraction digits (of which FracDigits are kept)
ParseDigits(s, i, nInt, nFrac) ==
    IF nInt = 0 /\ nFrac = 0 THEN NaN
    ELSE Num(DigitsToNat(SubSeq(s, i, i + nInt - 1)) * Scale +
             FracValue(SubSeq(s, i + nInt + 1,
                              i + nInt + Min(nFrac, FracDigits))))

ParseInteger(s, i, nInt) == ParseDigits(s, i, nInt, FracRun(s, i + nInt))

ParseUnsigned(s, i) == ParseInteger(s, i, DigitRun(s, i))

Negate(x) == IF x.nan THEN x ELSE Num(-x.v)

ParseSigned(s, i) ==
    IF CharIn(s, i, {"-"}) THEN Negate(ParseUnsigned(s, i + 1))
    ELSE ParseUnsigned(s, IF CharIn(s, i, {"+"}) THEN i + 1 ELSE i)

\* parseFloat on a string: leading blanks, an optional sign, then the longest
\* prefix of the form digits[.digits] or .digits; NaN when there is none.
\* (Exponents and "Infinity" do not occur in the inputs of the model.)
ParseFloatString(s) == ParseSigned(s, SkipBlanks(s, 1))

\* ------------------------------------------------------------------------
\* JSON values, as response.json() yields them
\* ------------------------------------------------------------------------
Undefined == [t |-> "undefined", n |-> NaN, s |-> ""]
Null      == [t |-> "null", n |-> NaN, s |-> ""]
JNum(v)   == [t |-> "num", n |-> Num(v), s |-> ""]
JStr(s)   == [t |-> "str", n |-> NaN, s |-> s]

\* String(v), as template interpolation and parseFloat apply it
ToStr(v) ==
    CASE v.t = "undefined" -> "undefined"
      [] v.t = "null"      -> "null"
      [] v.t = "num"       -> NumToString(v.n)
      [] v.t = "str"       -> v.s

\* ToBoolean(v)
Truthy(v) ==
    CASE v.t = "undefined" -> FALSE
      [] v.t = "null"      -> FALSE
      [] v.t = "num"       -> ~v.n.nan /\ v.n.v # 0
      [] v.t = "str"       -> v.s # ""

Nullish(v) == v.t \in {"undefined", "null"}

\* a ?? b
Coalesce(a, b) == IF Nullish(a) THEN b ELSE a

\* parseFloat(v): the argument is converted to a string first
ParseFloat(v) == ParseFloatString(ToStr(v))

\* parseFloat(v) ?? 0: parseFloat returns a number, and a number (NaN
\* included) is neither null nor undefined, so the default is never taken
ParseFloatOrZero(v) == ParseFloat(v)

\* v?.toLocaleString()
ToLocaleString(v) ==
    CASE Nullish(v)  -> Undefined
      [] v.t = "num" -> JStr(NumToLocaleString(v.n))
      [] v.t = "str" -> v

\* ------------------------------------------------------------------------
\* Query results and payloads
\* ------------------------------------------------------------------------
\* one entry of a response array: an object with optional fields, or null
Item(rank, date, o, h, l, c, vol, sim, var) ==
    [t |-> "obj", Rank |-> rank, Date |-> date, Open |-> o, High |-> h,
     Low |-> l, Close |-> c, Volume |-> vol, Similarity |-> sim,
     Variance |-> var]

NullItem ==
    [Item(Undefined, Undefined, Undefined, Undefined, Undefined, Undefined,
          Undefined, Undefined, Undefined) EXCEPT !.t = "null"]

\* a pattern/date search hit: prices as numeric strings, a similarity score
PatternItem ==
    Item(JNum(1 * Scale), JStr("2023-01-02"), JStr("150.25"), JStr("155.5"),
         JStr("149.75"), JStr("152.126"), JNum(1500 * Scale),
         JNum(98765 * (Scale \div 100000)), Undefined)

\* a hit whose similarity is exactly zero, prices as numbers
ZeroSimItem ==
    Item(JNum(2 * Scale), JStr("2023-01-03"), JNum(1521 * (Scale \div 10)),
         JNum(158 * Scale), JNum(1515 * (Scale \div 10)),
         JNum(15725 * (Scale \div 100)), JNum(950 * Scale), JNum(0),
         JNum(25 * (Scale \div 100)))

\* a volatility search hit: no prices, a variance score
VolatilityItem ==
    Item(JNum(1 * Scale), JStr("2023-01-04"), Undefined, Undefined, Undefined,
         Undefined, Undefined, Undefined, JNum(12345 * (Scale \div 100000)))

\* an object with no field at all
BareItem ==
    Item(Undefined, Undefined, Undefined, Undefined, Undefined, Undefined,
         Undefined, Undefined, Undefined)

\* a degraded hit: null and unparsable fields, null similarity, a variance
OddItem ==
    Item(Undefined, Null, Null, JStr("abc"), JStr(" 7.5x"), JStr("-.5"),
         JStr("n/a"), Null, JNum(5 * (Scale \div 10)))

Items == {PatternItem, ZeroSimItem, VolatilityItem, BareItem, OddItem, NullItem}

Records == Items \ {NullItem}

\* a parsed response body: its type, its detail property, its elements
Data(t, detail, items) == [t |-> t, detail |-> detail, items |-> items]

NoData == Data("none", Undefined, <<>>)

ArrayData(items) == Data("arr", Undefined, items)

EmptyArray == ArrayData(<<>>)

SeqsUpTo(S, n) == UNION {[1..k -> S] : k \in 0..n}

\* result lists: every hit is listed once
ResultLists ==
    {items \in SeqsUpTo(Items, MaxLen) :
        \A i, j \in 1..Len(items) : items[i] = items[j] => i = j}

ArrayPayloads == {ArrayData(items) : items \in ResultLists}

\* FastAPI error bodies, the detail text possibly empty
ErrorPayloads == {Data("obj", JStr("Date not found"), <<>>),
                  Data("obj", JStr(""), <<>>)}

\* bodies that are neither an array nor an error: {}, null, a number
OtherPayloads == {Data("obj", Undefined, <<>>), Data("null", Undefined, <<>>),
                  Data("num", Undefined, <<>>)}

Payloads == ArrayPayloads \cup ErrorPayloads \cup OtherPayloads

\* ------------------------------------------------------------------------
\* The render target: results area, chart area, chart instance
\* ------------------------------------------------------------------------
NoCard ==
    [date |-> "", rank |-> "", open |-> "", high |-> "", low |-> "",
     close |-> "", volume |-> "", scoreType |-> "", score |-> ""]

\* child elements of the results container
ErrorMessage(text) == [kind |-> "error-message", text |-> text, card |-> NoCard]
NoResults          == [kind |-> "p", text |-> "No results found.", card |-> NoCard]
ResultCard(card)   == [kind |-> "result-card", text |-> "", card |-> card]

\* the value of resultsChart: null, or a Chart built from labels and series
NoChart ==
    [isNull |-> TRUE, labels |-> <<>>, open |-> <<>>, high |-> <<>>,
     low |-> <<>>, close |-> <<>>]

NewChart(labels, chartData) ==
    [isNull |-> FALSE, labels |-> labels, open |-> chartData.open,
     high |-> chartData.high, low |-> chartData.low, close |-> chartData.close]

\* clearResults() dropping the chart reference without destroy()
ClearResultsNoDestroy(dom) ==
    [resultsContainer |-> <<>>,
     chartContainer   |-> "none",
     resultsChart     |-> NoChart,
     liveCharts       |-> dom.liveCharts]

\* clearResults() leaving the chart area as it is
ClearResultsChartShown(dom) ==
    [resultsContainer |-> <<>>,
     chartContainer   |-> dom.chartContainer,
     resultsChart     |-> NoChart,
     liveCharts       |-> IF ~dom.resultsChart.isNull
                          THEN dom.liveCharts - 1 ELSE dom.liveCharts]

\* clearResults() leaving the children of the results area in place
ClearResultsKeepsCards(dom) ==
    [resultsContainer |-> dom.resultsContainer,
     chartContainer   |-> "none",
     resultsChart     |-> NoChart,
     liveCharts       |-> IF ~dom.resultsChart.isNull
                          THEN dom.liveCharts - 1 ELSE dom.liveCharts]

\* clearResults() acting on a render target; liveCharts counts the Chart
\* instances constructed and not yet destroyed
ClearResults(dom) ==
    [resultsContainer |-> <<>>,
     chartContainer   |-> "none",
     resultsChart     |-> NoChart,
     liveCharts       |-> IF ~dom.resultsChart.isNull
                          THEN dom.liveCharts - 1 ELSE dom.liveCharts]

\* display values of one entry (lines 104-114)
ScoreType(item) ==
    IF item.Similarity.t # "undefined" THEN "Similarity" ELSE "Variance"

\* item.Similarity || item.Variance
ScoreValueOr(item) ==
    IF Truthy(item.Similarity) THEN item.Similarity ELSE item.Variance

ScoreValue(item) == Coalesce(item.Similarity, item.Variance)

Score(item) ==
    IF ScoreValue(item).t # "undefined"
    THEN ToFixed(ParseFloat(ScoreValue(item)), 4) ELSE "N/A"

\* the rank interpolated without the ?? 'N/A' default
RankOfRaw(item) == ToStr(item.Rank)

RankOf(item) == ToStr(Coalesce(item.Rank, JStr("N/A")))

DateOf(item) == ToStr(Coalesce(item.Date, JStr("N/A")))

VolumeOf(item) == ToStr(Coalesce(ToLocaleString(item.Volume), JStr("N/A")))

\* the card appended for one entry (lines 116-132)
CardOf(item) ==
    ResultCard([date      |-> DateOf(item),
                rank      |-> RankOf(item),
                open      |-> ToFixed(ParseFloatOrZero(item.Open), 2),
                high      |-> ToFixed(ParseFloatOrZero(item.High), 2),
                low       |-> ToFixed(ParseFloatOrZero(item.Low), 2),
                close     |-> ToFixed(ParseFloatOrZero(item.Close), 2),
                volume    |-> VolumeOf(item),
                scoreType |-> ScoreType(item),
                score     |-> Score(item)])

\* item.Open != null
HasOpenLoose(item) == ~Nullish(item.Open)

\* the test that guards the chart pushes (line 135)
HasOpen(item) == item.Open.t # "undefined"

ChartLabel(item) == "Rank " \o RankOf(item) \o " (" \o DateOf(item) \o ")"

\* resultsContainer.appendChild(card) (line 132)
AppendCard(acc, item) == [acc EXCEPT !.cards = Append(@, CardOf(item))]

\* the card inserted before the existing ones
PrependCard(acc, item) == [acc EXCEPT !.cards = <<CardOf(item)>> \o @]

\* the pushes onto the chart labels and series (lines 135-141)
PushChartData(acc, item) ==
    IF HasOpen(item)
    THEN [acc EXCEPT
            !.labels = Append(@, ChartLabel(item)),
            !.open   = Append(@, ParseFloatOrZero(item.Open)),
            !.high   = Append(@, ParseFloatOrZero(item.High)),
            !.low    = Append(@, ParseFloatOrZero(item.Low)),
            !.close  = Append(@, ParseFloatOrZero(item.Close))]
    ELSE acc

\* the forEach body with the card inserted first instead of appended
RenderItemPrepend(acc, item) == PushChartData(PrependCard(acc, item), item)

\* one iteration of the forEach body on the accumulated cards and series
RenderItem(acc, item) == PushChartData(AppendCard(acc, item), item)

\* data.forEach(...): reading a property of a null entry throws a TypeError
\* and leaves the cards of the entries before it in place
RECURSIVE ForEachItem(_, _, _)
ForEachItem(items, i, acc) ==
    IF i > Len(items) THEN acc
    ELSE IF items[i].t = "null" THEN [acc EXCEPT !.threw = TRUE]
    ELSE ForEachItem(items, i + 1, RenderItem(acc, items[i]))

EmptyAcc ==
    [cards |-> <<>>, labels |-> <<>>, open |-> <<>>, high |-> <<>>,
     low |-> <<>>, close |-> <<>>, threw |-> FALSE]

\* the outcome of the forEach loop for every array a response can carry.
\* The loop reads nothing but the array, so its outcome is tabulated; the
\* comparison makes TLC build the table once instead of evaluating the
\* loop again at every application.
ForEachTable ==
    LET table == [items \in SeqsUpTo(Items, MaxLen) |->
                    ForEachItem(items, 1, EmptyAcc)]
    IN  IF table = table THEN table ELSE table

TypeErrorMessage == "Cannot read properties of null"

\* a render target with its results area replaced (innerHTML = ...)
WithResults(dom, elements) == [dom EXCEPT !.resultsContainer = elements]

\* a render target with cards appended to its results area
WithCards(dom, cards) == [dom EXCEPT !.resultsContainer = @ \o cards]

\* a render target with the chart area shown and a new Chart held
WithChart(dom, acc) ==
    [dom EXCEPT !.chartContainer = "block",
                !.resultsChart   = NewChart(acc.labels, acc),
                !.liveCharts     = @ + 1]

\* the outcome of a call: the render target it leaves, whether it threw
Returned(dom) == [dom |-> dom, threw |-> FALSE]
Thrown(dom)   == [dom |-> dom, threw |-> TRUE]

\* lines 100-207, once the forEach loop has run or thrown
RenderArray(cleared, acc) ==
    IF acc.threw THEN Thrown(WithCards(cleared, acc.cards))
    ELSE IF Len(acc.labels) > 0
    THEN Returned(WithChart(WithCards(cleared, acc.cards), acc))
    ELSE Returned(WithCards(cleared, acc.cards))

\* lines 80-207, on the render target clearResults() left; reading
\* data.detail of null throws a TypeError
RenderData(cleared, data) ==
    IF data.t \in {"null", "undefined"} THEN Thrown(cleared)
    ELSE IF Truthy(data.detail)
    THEN Returned(WithResults(cleared, <<ErrorMessage(ToStr(data.detail))>>))
    ELSE IF data.t # "arr" \/ Len(data.items) = 0
    THEN Returned(WithResults(cleared, <<NoResults>>))
    ELSE RenderArray(cleared, ForEachTable[data.items])

\* displayResults(data) acting on a render target
DisplayResults(dom, data) == RenderData(ClearResults(dom), data)

\* a catch block that also hides the chart area, without destroying the chart
CatchErrorHidesChart(dom, message) ==
    [dom EXCEPT !.resultsContainer =
                  <<ErrorMessage("An error occurred: " \o message)>>,
                !.chartContainer = "none"]

\* the catch block of a submit handler: the results area is overwritten
\* with the error text; chart area and chart instance are left alone
CatchError(dom, message) ==
    [dom EXCEPT !.resultsContainer =
                  <<ErrorMessage("An error occurred: " \o message)>>]

\* ------------------------------------------------------------------------
\* The date selection control and loadDates()
\* ------------------------------------------------------------------------
\* an option element: its value and its text
Option(value, text) == [value |-> value, text |-> text]

\* the option the page's markup shows until loadDates() has finished
LoadingOption == Option("", "Loading dates...")

DefaultOption == Option("", "Select a date")

FailedOption == Option("", "Could not load dates")

\* a parsed body of /api/dates: its type and, for an array, its elements
DatesBody(t, items) == [t |-> t, items |-> items]

NoDates == DatesBody("none", <<>>)

DateStrings == {"2023-01-02", "2023-01-03"}

\* lists of available dates: no date is listed twice
DateLists ==
    {items \in SeqsUpTo(DateStrings, MaxDates) :
        \A i, j \in 1..Len(items) : items[i] = items[j] => i = j}

\* bodies /api/dates can answer with: arrays of date strings, an error
\* object, null
DatesPayloads ==
    {DatesBody("arr", items) : items \in DateLists} \cup
    {DatesBody("obj", <<>>), DatesBody("null", <<>>)}

\* the option appended for one date (lines 62-65)
DateOption(date) == Option(date, date)

\* dates.forEach(...) appending to the options already in the control
RECURSIVE AppendDates(_, _, _)
AppendDates(select, items, i) ==
    IF i > Len(items) THEN select
    ELSE AppendDates(Append(select, DateOption(items[i])), items, i + 1)

\* lines 60-66 without the innerHTML assignment that clears the control
PopulateDatesNoReset(select, body) ==
    IF body.t # "arr" THEN Thrown(select)
    ELSE Returned(AppendDates(select, body.items, 1))

\* lines 60-66 on the parsed body: the control is reset to the default
\* option, then dates.forEach appends; on a body that is not an array
\* dates.forEach is not a function and the call throws a TypeError
PopulateDates(select, body) ==
    IF body.t # "arr" THEN Thrown(<<DefaultOption>>)
    ELSE Returned(AppendDates(<<DefaultOption>>, body.items, 1))

\* ------------------------------------------------------------------------
\* The page as a state machine
\* ------------------------------------------------------------------------
VARIABLES
    loadingSpinner,    \* style.display of the loading spinner
    resultsContainer,  \* child elements of the results area, in order
    chartContainer,    \* style.display of the chart area
    resultsChart,      \* the chart instance held, or NoChart
    liveCharts,        \* Chart instances constructed and not destroyed
    activeTab,         \* the tab carrying the "active" class
    fetching,          \* submit handlers suspended at await fetch(...)
    parsing,           \* submit handlers suspended at await response.json()
    lastOp,            \* history: the last operation that wrote the render target
    lastData,          \* history: the payload displayResults was last called with,
                       \* while its outcome or its catch message is on display
    repeat,            \* history: that render redrew a render of the same payload
    dateSelect,        \* option elements of the date selection control
    datesPc,           \* where loadDates() stands
    dates              \* the const dates of loadDates(), once it is assigned

\* what the query handlers and the tab handler read and write
queryVars == <<loadingSpinner, resultsContainer, chartContainer, resultsChart,
               liveCharts, activeTab, fetching, parsing, lastOp, lastData,
               repeat>>

\* what loadDates() reads and writes
datesVars == <<dateSelect, datesPc, dates>>

vars == <<queryVars, datesVars>>

Tabs == {"pattern", "date", "volatility"}

Forms == {"pattern-form", "date-form", "volatility-form"}

\* messages of the exceptions fetch() and response.json() reject with
FetchErrorMessage == "Failed to fetch"
JsonErrorMessage  == "Unexpected token"

\* the render target of the current state
Dom ==
    [resultsContainer |-> resultsContainer, chartContainer |-> chartContainer,
     resultsChart |-> resultsChart, liveCharts |-> liveCharts]

SetDom(dom) ==
    /\ resultsContainer' = dom.resultsContainer
    /\ chartContainer' = dom.chartContainer
    /\ resultsChart' = dom.resultsChart
    /\ liveCharts' = dom.liveCharts

\* showLoading(show)
ShowLoading(show) == loadingSpinner' = IF show THEN "block" ELSE "none"

\* the page once the DOMContentLoaded handler has run: results area empty,
\* no chart, no query in flight; spinner and chart area start hidden (their
\* initial display comes from the page's markup and style sheet);
\* loadDates() has been called and is suspended at its await fetch(...)
Init ==
    /\ loadingSpinner = "none"
    /\ resultsContainer = <<>>
    /\ chartContainer = "none"
    /\ resultsChart = NoChart
    /\ liveCharts = 0
    /\ activeTab \in Tabs
    /\ fetching = 0
    /\ parsing = 0
    /\ lastOp = "none"
    /\ lastData = NoData
    /\ repeat = FALSE
    /\ dateSelect = <<LoadingOption>>
    /\ datesPc = "fetch"
    /\ dates = NoDates

\* a tab click that only switches the active classes
TabClickNoClear(tab) ==
    /\ UNCHANGED datesVars
    /\ activeTab' = tab
    /\ lastOp' = "tab"
    /\ lastData' = NoData
    /\ repeat' = FALSE
    /\ UNCHANGED <<loadingSpinner, resultsContainer, chartContainer,
                   resultsChart, liveCharts, fetching, parsing>>

\* click on a tab link (lines 17-28)
TabClick(tab) ==
    /\ UNCHANGED datesVars
    /\ activeTab' = tab
    /\ SetDom(ClearResults(Dom))
    /\ lastOp' = "tab"
    /\ lastData' = NoData
    /\ repeat' = FALSE
    /\ UNCHANGED <<loadingSpinner, fetching, parsing>>

\* submit of one of the three query forms, up to the await of fetch
Submit(form) ==
    /\ UNCHANGED datesVars
    /\ fetching + parsing < MaxInFlight
    /\ ShowLoading(TRUE)
    /\ SetDom(ClearResults(Dom))
    /\ fetching' = fetching + 1
    /\ lastOp' = "submit"
    /\ lastData' = NoData
    /\ repeat' = FALSE
    /\ UNCHANGED <<activeTab, parsing>>

\* fetch() resolves and the handler reports the arrival in the results area
\* before it goes on to await response.json()
FetchResolveReports ==
    /\ UNCHANGED datesVars
    /\ fetching > 0
    /\ fetching' = fetching - 1
    /\ parsing' = parsing + 1
    /\ resultsContainer' = <<NoResults>>
    /\ UNCHANGED <<loadingSpinner, chartContainer, resultsChart, liveCharts,
                   activeTab, lastOp, lastData, repeat>>

\* fetch() resolves with a response (of any status): the handler goes on
\* to await response.json()
FetchResolve ==
    /\ UNCHANGED datesVars
    /\ fetching > 0
    /\ fetching' = fetching - 1
    /\ parsing' = parsing + 1
    /\ UNCHANGED <<loadingSpinner, resultsContainer, chartContainer,
                   resultsChart, liveCharts, activeTab, lastOp, lastData,
                   repeat>>

\* fetch() rejects: catch block, with no finally block
FetchRejectNoFinally ==
    /\ UNCHANGED datesVars
    /\ fetching > 0
    /\ fetching' = fetching - 1
    /\ SetDom(CatchError(Dom, FetchErrorMessage))
    /\ lastOp' = "catch"
    /\ lastData' = NoData
    /\ repeat' = FALSE
    /\ UNCHANGED <<activeTab, parsing, loadingSpinner>>

\* fetch() rejects: catch block, then finally
FetchReject ==
    /\ UNCHANGED datesVars
    /\ fetching > 0
    /\ fetching' = fetching - 1
    /\ SetDom(CatchError(Dom, FetchErrorMessage))
    /\ ShowLoading(FALSE)
    /\ lastOp' = "catch"
    /\ lastData' = NoData
    /\ repeat' = FALSE
    /\ UNCHANGED <<activeTab, parsing>>

\* response.json() rejects (the body is not JSON): catch block, then finally
JsonReject ==
    /\ UNCHANGED datesVars
    /\ parsing > 0
    /\ parsing' = parsing - 1
    /\ SetDom(CatchError(Dom, JsonErrorMessage))
    /\ ShowLoading(FALSE)
    /\ lastOp' = "catch"
    /\ lastData' = NoData
    /\ repeat' = FALSE
    /\ UNCHANGED <<activeTab, fetching>>

\* lines 229-232: the outcome r of displayResults(data), and the catch
\* block when it threw
RenderOrCatch(r, data) ==
    IF r.threw
    THEN /\ SetDom(CatchError(r.dom, TypeErrorMessage))
         /\ lastOp' = "catch"
         /\ lastData' = data
         /\ repeat' = FALSE
    ELSE /\ SetDom(r.dom)
         /\ lastOp' = "render"
         /\ lastData' = data
         /\ repeat' = (lastOp = "render" /\ lastData = data)

\* response.json() resolves with data: displayResults(data), the catch
\* block when it throws, then finally
JsonResolve(data) ==
    /\ UNCHANGED datesVars
    /\ parsing > 0
    /\ parsing' = parsing - 1
    /\ RenderOrCatch(DisplayResults(Dom, data), data)
    /\ ShowLoading(FALSE)
    /\ UNCHANGED <<activeTab, fetching>>

\* the catch block of loadDates() (lines 67-70)
CatchDatesError ==
    /\ dateSelect' = <<FailedOption>>
    /\ datesPc' = "failed"
    /\ dates' = NoDates

\* fetch of /api/dates rejects
DatesFetchReject ==
    /\ datesPc = "fetch"
    /\ CatchDatesError
    /\ UNCHANGED queryVars

\* fetch of /api/dates resolves: a response that is not ok makes the
\* function throw, an ok one makes it await response.json()
DatesFetchResolve(ok) ==
    /\ datesPc = "fetch"
    /\ IF ok
       THEN /\ datesPc' = "json"
            /\ UNCHANGED <<dateSelect, dates>>
       ELSE CatchDatesError
    /\ UNCHANGED queryVars

\* response.json() of /api/dates rejects
DatesJsonReject ==
    /\ datesPc = "json"
    /\ CatchDatesError
    /\ UNCHANGED queryVars

\* lines 60-70: the outcome r of populating the control from body, and the
\* catch block when it threw
PopulateOrCatch(r, body) ==
    IF r.threw
    THEN CatchDatesError
    ELSE /\ dateSelect' = r.dom
         /\ datesPc' = "loaded"
         /\ dates' = body

\* response.json() of /api/dates resolves with body
DatesJsonResolve(body) ==
    /\ datesPc = "json"
    /\ PopulateOrCatch(PopulateDates(dateSelect, body), body)
    /\ UNCHANGED queryVars

Next ==
    \/ DatesFetchReject
    \/ \E ok \in BOOLEAN : DatesFetchResolve(ok)
    \/ DatesJsonReject
    \/ \E body \in DatesPayloads : DatesJsonResolve(body)
    \/ \E tab \in Tabs : TabClick(tab)
    \/ \E form \in Forms : Submit(form)
    \/ FetchResolve
    \/ FetchReject
    \/ JsonReject
    \/ \E data \in Payloads : JsonResolve(data)

Spec == Init /\ [][Next]_vars

\* ------------------------------------------------------------------------
\* Properties
\* ------------------------------------------------------------------------
\* what the user sees of the render target
View == <<resultsContainer, chartContainer, resultsChart>>

\* the render target shows the outcome of displayResults on an array of
\* at least one entry
RenderedArray ==
    /\ lastOp = "render"
    /\ lastData.t = "arr"
    /\ Len(lastData.items) >= 1

OpenDefined(item) == item.Open.t # "undefined"

\* C1: in every reachable state at most one chart instance is live
\* (constructed and not destroyed), and a live instance is the one held in
\* resultsChart: a chart is only created once the previous one was
\* destroyed and its reference nulled.
C1_AtMostOneLiveChart ==
    /\ liveCharts \in {0, 1}
    /\ resultsChart.isNull => liveCharts = 0

\* a chart was built by a render that found a chart already held
C1_Witness == repeat /\ ~resultsChart.isNull /\ liveCharts = 1

\* C2: displayResults(X) applied to the outcome of displayResults(X)
\* leaves results area, chart visibility and chart series as they were,
\* and no additional chart instance.
C2_RenderIdempotent ==
    [][repeat' => (View' = View /\ liveCharts' = liveCharts)]_vars

\* a two-entry result set with a chart was rendered twice in a row
C2_Witness ==
    /\ repeat
    /\ lastData = ArrayData(<<PatternItem, VolatilityItem>>)
    /\ Len(resultsContainer) = 2

\* C3: after displayResults on a result set of n >= 1 records the results
\* area holds exactly n cards, the i-th one built from the i-th entry.
C3_OneCardPerEntry ==
    RenderedArray =>
        /\ Len(resultsContainer) = Len(lastData.items)
        /\ \A i \in 1..Len(lastData.items) :
               resultsContainer[i] = CardOf(lastData.items[i])

\* two different entries were rendered, after a render of something else
C3_Witness ==
    /\ RenderedArray
    /\ ~repeat
    /\ lastData = ArrayData(<<ZeroSimItem, PatternItem>>)
    /\ resultsContainer[1].card.rank = "2"

\* C4 (as claimed): a payload whose detail is the string X, for every X,
\* is rendered as exactly one error element with text X, no card, the
\* chart area hidden and no live chart.
C4_DetailAlwaysError ==
    (lastOp = "render" /\ lastData.detail.t = "str") =>
        /\ resultsContainer = <<ErrorMessage(lastData.detail.s)>>
        /\ chartContainer = "none"
        /\ resultsChart.isNull
        /\ liveCharts = 0

\* C5: after displayResults on an empty array the results area holds
\* exactly the no-results placeholder, the chart area is hidden and no
\* chart instance is live.
C5_EmptyArrayPlaceholder ==
    (lastOp = "render" /\ lastData = EmptyArray) =>
        /\ resultsContainer = <<NoResults>>
        /\ chartContainer = "none"
        /\ resultsChart.isNull
        /\ liveCharts = 0

\* an empty array was rendered and its placeholder is on display
C5_Witness ==
    /\ lastOp = "render"
    /\ lastData = EmptyArray
    /\ resultsContainer = <<NoResults>>

\* C6: after displayResults on a non-empty result set the chart area is
\* visible iff some entry has a defined Open; when visible, labels and the
\* four series have one element per entry with a defined Open, the k-th
\* from the k-th such entry.
C6_ChartFromEntriesWithOpen ==
    RenderedArray =>
        LET sel == SelectSeq(lastData.items, OpenDefined)
        IN  /\ chartContainer = "block" <=> Len(sel) > 0
            /\ chartContainer = "block" =>
                 /\ ~resultsChart.isNull
                 /\ Len(resultsChart.labels) = Len(sel)
                 /\ Len(resultsChart.open) = Len(sel)
                 /\ Len(resultsChart.high) = Len(sel)
                 /\ Len(resultsChart.low) = Len(sel)
                 /\ Len(resultsChart.close) = Len(sel)
                 /\ \A k \in 1..Len(sel) :
                      /\ resultsChart.labels[k] = ChartLabel(sel[k])
                      /\ resultsChart.open[k] = ParseFloat(sel[k].Open)
                      /\ resultsChart.high[k] = ParseFloat(sel[k].High)
                      /\ resultsChart.low[k] = ParseFloat(sel[k].Low)
                      /\ resultsChart.close[k] = ParseFloat(sel[k].Close)

\* an entry without Open was skipped ahead of one that is charted
C6_Witness ==
    /\ RenderedArray
    /\ lastData = ArrayData(<<VolatilityItem, PatternItem>>)
    /\ chartContainer = "block"
    /\ resultsChart.labels = <<"Rank 1 (2023-01-02)">>

\* C7 (as claimed): an entry without Open, High, Low and Close but with a
\* Variance is rendered as a card whose four price metrics read "0.00".
C7_AbsentPricesShowZero ==
    RenderedArray =>
        \A i \in 1..Len(lastData.items) :
            LET item == lastData.items[i]
            IN  (/\ item.Open.t = "undefined" /\ item.High.t = "undefined"
                 /\ item.Low.t = "undefined" /\ item.Close.t = "undefined"
                 /\ item.Variance.t = "num") =>
                    /\ resultsContainer[i].card.open = "0.00"
                    /\ resultsContainer[i].card.high = "0.00"
                    /\ resultsContainer[i].card.low = "0.00"
                    /\ resultsContainer[i].card.close = "0.00"

\* C8: an entry whose Similarity is the number 0 is rendered with the
\* label "Similarity" and the score "0.0000".
C8_ZeroSimilarityShown ==
    RenderedArray =>
        \A i \in 1..Len(lastData.items) :
            lastData.items[i].Similarity = JNum(0) =>
                /\ resultsContainer[i].card.scoreType = "Similarity"
                /\ resultsContainer[i].card.score = "0.0000"

\* an entry with Similarity 0 (and a Variance) is on display
C8_Witness ==
    /\ RenderedArray
    /\ lastData.items[1] = ZeroSimItem
    /\ resultsContainer[1].card.score = "0.0000"

\* C9: a tab click leaves the results area empty, the chart area hidden
\* and no chart instance live, whatever was displayed before.
C9_TabClickClears ==
    lastOp = "tab" =>
        /\ resultsContainer = <<>>
        /\ chartContainer = "none"
        /\ resultsChart.isNull
        /\ liveCharts = 0

\* a tab was clicked while a query is in flight
C9_Witness == lastOp = "tab" /\ fetching + parsing > 0 /\ resultsContainer = <<>>

\* C10 (as claimed): while some query's fetch is in flight the loading
\* indicator is shown.
C10_LoadingWhileInFlight ==
    fetching + parsing > 0 => loadingSpinner = "block"

\* C11: whenever a query finishes (result, server error, transport or parse
\* failure, exception inside displayResults) its handler hides the loading
\* indicator, so with no query in flight the indicator is hidden.
C11_LoadingHiddenAfterwards ==
    /\ [](fetching + parsing = 0 => loadingSpinner = "none")
    /\ [][fetching' + parsing' < fetching + parsing =>
             loadingSpinner' = "none"]_vars

\* a query ended in the catch block, none is in flight, the spinner is hidden
C11_Witness ==
    /\ lastOp = "catch"
    /\ fetching + parsing = 0
    /\ loadingSpinner = "none"

\* the render target of a page on which nothing was ever displayed
FreshDom ==
    [resultsContainer |-> <<>>, chartContainer |-> "none",
     resultsChart |-> NoChart, liveCharts |-> 0]

\* the results area shows an error message element
ErrorShown ==
    \E i \in 1..Len(resultsContainer) :
        resultsContainer[i].kind = "error-message"

\* the results area shows at least one result card
CardsShown ==
    \E i \in 1..Len(resultsContainer) :
        resultsContainer[i].kind = "result-card"

\* C12 (as claimed): once no query is in flight, results area and chart show
\* only what the query that resolved last produced: its render alone when
\* it rendered, its error message alone (and no chart) when it failed.
C12_LastWriteWins ==
    (fetching + parsing = 0 /\ lastOp \in {"render", "catch"}) =>
        IF lastOp = "render"
        THEN Dom = DisplayResults(FreshDom, lastData).dom
        ELSE /\ Len(resultsContainer) = 1
             /\ ErrorShown
             /\ chartContainer = "none"
             /\ resultsChart.isNull

\* C13 (as claimed): whenever the results area shows an error message it
\* shows no result card, the chart area is hidden and no chart is live.
C13_ErrorExcludesResults ==
    ErrorShown =>
        /\ ~CardsShown
        /\ chartContainer = "none"
        /\ resultsChart.isNull
        /\ liveCharts = 0

\* displayResults was called with data, and what it left (or the message of
\* the catch block when it threw) is on display
Displayed(data) == lastOp \in {"render", "catch"} /\ lastData = data

\* C14 (as claimed): displayResults on a payload that is not an array and
\* carries no detail ({}, null, a number) returns without throwing and
\* leaves exactly the no-results placeholder and a hidden chart.
C14_NonSequenceNeverThrows ==
    \A data \in OtherPayloads :
        Displayed(data) =>
            /\ lastOp = "render"
            /\ resultsContainer = <<NoResults>>
            /\ chartContainer = "none"
            /\ resultsChart.isNull

\* the catch block ran because response.json() rejected
ParseFailureShown ==
    /\ lastOp = "catch"
    /\ lastData = NoData
    /\ resultsContainer =
           <<ErrorMessage("An error occurred: " \o JsonErrorMessage)>>

\* the catch block ran because displayResults threw
RenderFailureShown == lastOp = "catch" /\ lastData # NoData

\* C15 (as claimed): when the body cannot be parsed or displayResults
\* throws part-way, the results area is left with no result card, only the
\* error message, and no chart is displayed.
C15_NoPartialRender ==
    (ParseFailureShown \/ RenderFailureShown) =>
        /\ ~CardsShown
        /\ Len(resultsContainer) = 1
        /\ ErrorShown
        /\ chartContainer = "none"
        /\ resultsChart.isNull

\* the score a field is displayed as
Formatted(v) == ToFixed(ParseFloat(v), 4)

\* C17 (as claimed): for every entry on display, a present Similarity gives
\* the label "Similarity" and the Similarity formatted to 4 decimals;
\* otherwise a present Variance gives the label "Variance" and the
\* Variance; neither gives the sentinel; the value never comes from a field
\* other than the one the label names.
C17_ScoreLabelMatchesValue ==
    RenderedArray =>
        \A i \in 1..Len(lastData.items) :
            LET item == lastData.items[i]
                card == resultsContainer[i].card
            IN  /\ item.Similarity.t # "undefined" =>
                     /\ card.scoreType = "Similarity"
                     /\ card.score = Formatted(item.Similarity)
                /\ (item.Similarity.t = "undefined" /\
                    item.Variance.t # "undefined") =>
                     /\ card.scoreType = "Variance"
                     /\ card.score = Formatted(item.Variance)
                /\ (item.Similarity.t = "undefined" /\
                    item.Variance.t = "undefined") => card.score = "N/A"

\* every entry of the array on display is an object
AllRecords(items) == \A i \in 1..Len(items) : items[i] \in Records

Sentinel == "N/A"

\* C18: displayResults on an array of records, whatever fields they lack,
\* returns without throwing, leaves one card per entry, shows the sentinel
\* for each absent Rank, Date and Volume, and builds the chart label of a
\* charted entry from the same rank and date texts as its card.
C18_MissingFieldsDegrade ==
    \A data \in ArrayPayloads :
        (Len(data.items) >= 1 /\ AllRecords(data.items) /\ Displayed(data)) =>
            /\ lastOp = "render"
            /\ Len(resultsContainer) = Len(data.items)
            /\ \A i \in 1..Len(data.items) :
                 /\ resultsContainer[i].kind = "result-card"
                 /\ data.items[i].Rank.t = "undefined" =>
                        resultsContainer[i].card.rank = Sentinel
                 /\ data.items[i].Date.t = "undefined" =>
                        resultsContainer[i].card.date = Sentinel
                 /\ data.items[i].Volume.t = "undefined" =>
                        resultsContainer[i].card.volume = Sentinel
            /\ LET charted == {i \in 1..Len(data.items) :
                                  OpenDefined(data.items[i])}
               IN  \A i \in charted :
                     resultsChart.labels[Cardinality({j \in charted : j <= i})] =
                        "Rank " \o resultsContainer[i].card.rank \o " (" \o
                        resultsContainer[i].card.date \o ")"

\* an entry without Rank, Date, Volume and prices is on display next to a
\* charted one
C18_Witness ==
    /\ Displayed(ArrayData(<<BareItem, PatternItem>>))
    /\ lastOp = "render"
    /\ resultsContainer[1].card.rank = Sentinel
    /\ resultsChart.labels = <<"Rank 1 (2023-01-02)">>

\* C19: in every state between handler steps the chart area is visible if
\* and only if a chart instance is held in resultsChart.
C19_ChartAreaIffChart ==
    chartContainer = "block" <=> ~resultsChart.isNull

\* a failed query left its error message next to the chart of another one:
\* the chart area is shown and the chart is held
C19_Witness ==
    /\ lastOp = "catch"
    /\ chartContainer = "block"
    /\ ~resultsChart.isNull

\* results area empty, chart area hidden, no chart held
Cleared ==
    /\ resultsContainer = <<>>
    /\ chartContainer = "none"
    /\ resultsChart.isNull

\* C20 (as claimed): after a tab click the results area stays empty and the
\* chart hidden in every later state up to the next form submission, also
\* when a query that was in flight at the click resolves afterwards.
C20_ClearedUntilSubmit ==
    [][lastOp = "tab" => Cleared']_vars

\* C20 (amended): after a tab click the results area stays empty and the
\* chart hidden until a query completes: only the completion of a query
\* (one in flight at the click included) ends the cleared display, so with
\* no query in flight it lasts until the next submission.
C20_ClearedUntilCompletion ==
    [][(lastOp = "tab" /\ ~Cleared') =>
           fetching' + parsing' < fetching + parsing]_vars

\* a tab click left the page cleared while a query awaits its body
C20_Witness ==
    /\ lastOp = "tab"
    /\ parsing > 0
    /\ loadingSpinner = "block"
    /\ Cleared

\* the options loadDates() leaves for an array of dates
RECURSIVE OptionsFor(_)
OptionsFor(items) ==
    IF items = <<>> THEN <<>>
    ELSE <<Option(Head(items), Head(items))>> \o OptionsFor(Tail(items))

\* C16: when loading the dates fails (fetch rejects, status not ok, body
\* unparsable or not an array) the control holds exactly the "Could not
\* load dates" option, loadDates() ends in its catch block, and tab and
\* form handlers stay enabled; when it succeeds the control holds the
\* default option followed by one option per date, in order.
C16_DatesLoadDegrades ==
    /\ datesPc \in {"fetch", "json", "loaded", "failed"}
    /\ datesPc = "failed" =>
          /\ dateSelect = <<FailedOption>>
          /\ ENABLED (\E tab \in Tabs : TabClick(tab))
          /\ fetching + parsing < MaxInFlight =>
                ENABLED (\E form \in Forms : Submit(form))
    /\ datesPc = "loaded" =>
          /\ dates.t = "arr"
          /\ dateSelect = <<DefaultOption>> \o OptionsFor(dates.items)

\* two dates were loaded in the returned order while a query is in flight
C16_Witness ==
    /\ datesPc = "loaded"
    /\ dates.items = <<"2023-01-03", "2023-01-02">>
    /\ Len(dateSelect) = 3
    /\ fetching > 0

\* loading failed and the page has gone on to display a query's results
C16_WitnessFailed ==
    /\ datesPc = "failed"
    /\ dateSelect = <<FailedOption>>
    /\ lastOp = "render"

====
